---- MODULE Spec2Model ----
(***************************************************************************)
(* go-eww-workspaces: the auto-detecting variant (src/unnamed/part_000).   *)
(* One sequential process: Run -> subscribeAndRender -> detectCommand ->   *)
(* readMonitorOutput -> render -> subscribe -> (Scan -> render)*.          *)
(* The environment is the host (PATH, the sway probe), the monitors file,  *)
(* the workspace query subprocess and the subscription subprocess; what    *)
(* they answer is chosen when the program asks.                            *)
(* An action ends where the code blocks: a select, a subprocess run, a     *)
(* Scan.                                                                   *)
(*                                                                         *)
(* Specifications:                                                         *)
(*   Spec          the whole run on an unchanging host                     *)
(*   SpecResolve   startup and resolution, with fairness                   *)
(*   SpecRender    render on every workspace list                          *)
(*   SpecEnv       render and event loop, the host changing and event      *)
(*                 lines queueing in the pipe                              *)
(*   SpecVariants  a single-tool variant (internal/program/program.go) run *)
(*                 after the auto-detecting program in the same environment*)
(***************************************************************************)
EXTENDS Integers, Sequences, FiniteSets, TLC

VARIABLES
    pc,          \* position of the main flow
    monitor,     \* the -monitor flag
    host,        \* PATH availability of the two tools and the sway probe's result
    lastRead,    \* what the last os.ReadFile(path) met, while the resolver runs
    data,        \* readMonitorOutput's data
    cmdName,     \* subscribeAndRender's cmdName
    elapsed,     \* poll intervals elapsed since execCtx was created
    reads,       \* os.ReadFile calls on the monitors file
    resolveErr,  \* the error readMonitorOutput returned
    output,      \* subscribeAndRender's output
    wss,         \* the workspace list of the current render cycle
    states,      \* render's states slice
    visible,     \* render's visible slice
    parts,       \* render's parts slice
    fetchErr,    \* render's err: fetchWorkspaces failed in the current render cycle
    widget,      \* the widget line printed in the current render cycle
    stdout,      \* kinds of the lines written to standard output
    subscribed,  \* subCmd.Start() has succeeded
    events,      \* event lines scanner.Scan() has returned
    renders,     \* calls of render
    cycles,      \* calls of render that returned nil
    streamEnd,   \* how the subscription's stream ended
    exitStatus,  \* the process's exit status, -1 while it runs
    detects,     \* calls of detectCommand
    hostChanges, \* changes of the host since the process started
    pending,     \* event lines the subscription has written and Scan has not returned
    plan,        \* what the environment will answer, when two programs are compared
    single       \* the state of a single-tool variant (internal/program/program.go)

vars == << pc, monitor, host, lastRead, data, cmdName, elapsed, reads, resolveErr, output,
           wss, fetchErr, states, visible, parts, widget, stdout, subscribed,
           events, renders, cycles, streamEnd, exitStatus, detects, hostChanges, pending, plan,
           single >>

(***************************************************************************)
(* Program constants                                                       *)
(***************************************************************************)
startWS == 1
endWS == 10
\* 200ms: waitForFile's ticker; the parse loop's time.After waits as long
PollInterval == 200
ResolveTimeout == 5000
TimeoutTicks == ResolveTimeout \div PollInterval

(***************************************************************************)
(* Bounds of the model                                                     *)
(***************************************************************************)
MaxEvents == 1
MaxInfos == 2
MaxWss == 2
MaxHostChanges == 1
MaxPending == 2
MaxPlanReads == 2

Monitors == {"DP-1", "DP-2"}
Outputs == {"eDP-1", "HDMI-A-1"}
Nums == {-1, 0, 1, 10, 11}

RECURSIVE SeqsUpTo(_, _)
SeqsUpTo(S, n) ==
    IF n = 0 THEN {<< >>}
    ELSE LET shorter == SeqsUpTo(S, n - 1)
         IN  shorter \cup {Append(s, x) : s \in {t \in shorter : Len(t) = n - 1}, x \in S}

(***************************************************************************)
(* Types                                                                   *)
(***************************************************************************)
\* MonitorInfo{Monitor, Output}
MonitorInfo == [monitor : Monitors, output : Outputs]

\* Workspace{Name, Num, Focused, Urgent, Output}; Name is never read
Workspace == [num : Nums, focused : BOOLEAN, urgent : BOOLEAN, output : Outputs]

\* What os.ReadFile can meet: no file, a file that cannot be read, an empty
\* file, bytes that do not unmarshal into []MonitorInfo, or a binding array.
FileContents ==
    {[kind |-> k, infos |-> << >>] : k \in {"missing", "unreadable", "empty", "garbage"}}
        \cup {[kind |-> "array", infos |-> s] : s \in SeqsUpTo(MonitorInfo, MaxInfos)}

\* exec.LookPath of each tool, and the outcome of `swaymsg -t get_version`
\* under its 300ms context ("none" when swaymsg is not on PATH).
Hosts ==
    {[swayOnPath |-> TRUE, swayProbe |-> p, i3OnPath |-> i] :
        p \in {"ok", "fail", "timeout"}, i \in BOOLEAN}
        \cup {[swayOnPath |-> FALSE, swayProbe |-> "none", i3OnPath |-> i] : i \in BOOLEAN}

SwayPath == "/usr/bin/swaymsg"
I3Path == "/usr/bin/i3-msg"
I3Name == "i3-msg"

(***************************************************************************)
(* detectCommand                                                           *)
(***************************************************************************)
\* detection that trusts PATH alone and skips the version probe
detectCommandNoProbe(h) ==
    IF h.swayOnPath THEN SwayPath
    ELSE IF h.i3OnPath THEN I3Path
    ELSE I3Name

detectCommand(h) ==
    IF h.swayOnPath /\ h.swayProbe = "ok" THEN SwayPath
    ELSE IF h.i3OnPath THEN I3Path
    ELSE I3Name

\* exec.Command(name, ...) can start: a resolved path, or a bare name found on PATH
CanExec(name, h) == name # I3Name \/ h.i3OnPath

(***************************************************************************)
(* waitForFile / readMonitorOutput                                         *)
(***************************************************************************)
\* os.ReadFile: err == nil
ReadOk(f) == f.kind \in {"empty", "garbage", "array"}

\* waitForFile's test: err == nil && len(data) > 0
ReadableNonEmpty(f) == f.kind \in {"garbage", "array"}

\* data after `data, _ = os.ReadFile(path)` failed, and before the first read
NoData == [kind |-> "none", infos |-> << >>]

\* json.Unmarshal(data, &infos) == nil
UnmarshalOk(f) == f.kind = "array"

\* the range loop over infos: the first entry whose Monitor equals monitor
RECURSIVE FindMonitor(_, _)
FindMonitor(infos, m) ==
    IF infos = << >> THEN [found |-> FALSE, output |-> ""]
    ELSE IF Head(infos).monitor = m THEN [found |-> TRUE, output |-> Head(infos).output]
    ELSE FindMonitor(Tail(infos), m)

(***************************************************************************)
(* render                                                                  *)
(***************************************************************************)
\* make([]string, endWS+1), make([]bool, endWS+1) and the initialising loop
InitStates == [i \in 0..endWS |-> IF i >= startWS THEN "unoccupied" ELSE ""]
InitVisible == [i \in 0..endWS |-> i >= startWS]

\* the switch with its first two cases in the other order
StateOfFocusedFirst(ws) ==
    IF ws.focused THEN "focused"
    ELSE IF ws.urgent THEN "urgent"
    ELSE "occupied"

\* the switch on ws.Urgent / ws.Focused
StateOf(ws) ==
    IF ws.urgent THEN "urgent"
    ELSE IF ws.focused THEN "focused"
    ELSE "occupied"

\* states[ws.Num] and visible[ws.Num] are in range of the slices
InRange(n) == n >= 0 /\ n <= endWS

\* the loop without its `continue`
OnAnyOutput(ws, out) == TRUE

\* the test that guards `continue`: ws.Output != output is false
OnOutput(ws, out) == ws.output = out

\* a loop that leaves a slot alone once a record has set it
RECURSIVE ApplyRecordsFirstWins(_, _, _)
ApplyRecordsFirstWins(list, out, r) ==
    IF list = << >> \/ ~r.ok THEN r
    ELSE LET ws == Head(list)
         IN  IF ~OnOutput(ws, out) THEN ApplyRecordsFirstWins(Tail(list), out, r)
             ELSE IF ~InRange(ws.num) THEN [r EXCEPT !.ok = FALSE]
             ELSE IF r.states[ws.num] # InitStates[ws.num]
                  THEN ApplyRecordsFirstWins(Tail(list), out, r)
             ELSE ApplyRecordsFirstWins(Tail(list), out,
                      [r EXCEPT !.states[ws.num] = StateOf(ws),
                                !.visible[ws.num] = TRUE])

\* the loop over wss: r is [ok, states, visible]; an index out of range panics
RECURSIVE ApplyRecords(_, _, _)
ApplyRecords(list, out, r) ==
    IF list = << >> \/ ~r.ok THEN r
    ELSE LET ws == Head(list)
         IN  IF ~OnOutput(ws, out) THEN ApplyRecords(Tail(list), out, r)
             ELSE IF ~InRange(ws.num) THEN [r EXCEPT !.ok = FALSE]
             ELSE ApplyRecords(Tail(list), out,
                      [r EXCEPT !.states[ws.num] = StateOf(ws),
                                !.visible[ws.num] = TRUE])

\* a zero-based label
ButtonZeroBased(cmd, i, vis, st) ==
    [onclick |-> << cmd, i >>, visible |-> vis[i], class |-> st[i], label |-> i - 1]

\* fmt.Sprintf(btnFormat, cmd, i, visible[i], states[i], i)
Button(cmd, i, vis, st) ==
    [onclick |-> << cmd, i >>, visible |-> vis[i], class |-> st[i], label |-> i]


\* every workspace list render is checked on
Responses == SeqsUpTo(Workspace, MaxWss)

\* the workspace lists of a whole run: at most one workspace, in slot startWS or
\* past endWS, on either output
RunResponses ==
    {<< >>} \cup {<< w >> : w \in {v \in Workspace : v.num \in {startWS, endWS + 1} /\ ~v.focused}}

(***************************************************************************)
(* The single-tool variants and the environment two programs are run in    *)
(***************************************************************************)
\* the two variants of internal/program/program.go, named by their resolvers
Variants == {"ReadMonitorOutput", "readMonitors"}

\* the state of a variant before Run
SingleInit(v) ==
    [variant |-> v, pc |-> "Start", data |-> NoData, elapsed |-> 0, reads |-> 0,
     resolveErr |-> "none", output |-> "", renders |-> 0, events |-> 0,
     subscribed |-> FALSE, widget |-> << >>, stdout |-> << >>, exitStatus |-> -1]

\* no variant is run
NoSingle == [SingleInit("none") EXCEPT !.pc = "Off"]

\* what the monitors file can hold when two programs are compared
PlanFiles ==
    { [kind |-> "missing", infos |-> << >>],
      [kind |-> "garbage", infos |-> << >>],
      [kind |-> "array", infos |-> << [monitor |-> "DP-1", output |-> "eDP-1"] >>],
      [kind |-> "array", infos |-> << [monitor |-> "DP-2", output |-> "eDP-1"] >>] }

\* sequences over S of length n
RECURSIVE SeqsOfLen(_, _)
SeqsOfLen(S, n) ==
    IF n = 0 THEN {<< >>}
    ELSE {Append(s, x) : s \in SeqsOfLen(S, n - 1), x \in S}

\* an environment: what the k-th read of the monitors file meets (the reads
\* after the last entry meet the last entry), what the workspace query answers,
\* whether the subscription starts, how many event lines it writes and how its
\* stream ends
Plans ==
    [files : SeqsOfLen(PlanFiles, MaxPlanReads),
     queryOk : {TRUE},
     resp : RunResponses,
     startOk : BOOLEAN,
     lines : 0..MaxEvents,
     end : {"eof", "error"}]
        \cup
    [files : SeqsOfLen(PlanFiles, MaxPlanReads),
     queryOk : {FALSE},
     resp : {<< >>},
     startOk : BOOLEAN,
     lines : 0..MaxEvents,
     end : {"eof", "error"}]

\* no environment is fixed
NoPlan ==
    [files |-> << >>, queryOk |-> FALSE, resp |-> << >>, startOk |-> FALSE, lines |-> 0,
     end |-> "eof"]

\* what the k-th read of the monitors file meets
PlanFile(k) == plan.files[IF k <= Len(plan.files) THEN k ELSE Len(plan.files)]

\* fmt.Sprintf(btnFormat, i, vis[i], states[i], i), btnFormat naming i3-msg
SingleButton(i, vis, st) ==
    [onclick |-> << I3Name, i >>, visible |-> vis[i], class |-> st[i], label |-> i]

(***************************************************************************)
(* Initial state: the process has been started on some host                *)
(***************************************************************************)
InitLocals ==
    /\ pc = "Start"
    /\ cmdName = ""
    /\ lastRead = NoData
    /\ data = NoData
    /\ elapsed = 0
    /\ reads = 0
    /\ resolveErr = "none"
    /\ output = ""
    /\ wss = << >>
    /\ fetchErr = FALSE
    /\ states = InitStates
    /\ visible = InitVisible
    /\ parts = << >>
    /\ widget = << >>
    /\ stdout = << >>
    /\ subscribed = FALSE
    /\ events = 0
    /\ renders = 0
    /\ cycles = 0
    /\ streamEnd = "open"
    /\ exitStatus = -1
    /\ detects = 0
    /\ hostChanges = 0
    /\ pending = 0

Init ==
    /\ monitor \in Monitors \cup {""}
    /\ host \in Hosts
    /\ InitLocals
    /\ plan = NoPlan
    /\ single = NoSingle

(***************************************************************************)
(* Pieces of actions                                                       *)
(***************************************************************************)
\* the variables of one render cycle
cycleVars == << wss, fetchErr, states, visible, parts, widget, renders >>

\* an error path that leaves with status 0
FatalExitZero ==
    /\ pc' = "Terminated"
    /\ exitStatus' = 0

\* log.Fatalf / os.Exit(1) in Run
Fatal ==
    /\ pc' = "Terminated"
    /\ exitStatus' = 1

\* the call render(cmdName, output) up to the point where it waits for the query
EnterRender ==
    /\ pc' = "Fetching"
    /\ renders' = renders + 1
    /\ states' = InitStates
    /\ visible' = InitVisible
    /\ wss' = << >>
    /\ fetchErr' = FALSE
    /\ parts' = << >>
    /\ widget' = << >>

\* where subscribeAndRender goes on after render has returned
AfterRender == IF subscribed THEN "Subscribed" ELSE "Subscribing"

\* a context that is done from the start
DeadlineAlways == TRUE

\* <-ctx.Done() is ready no later than the next tick
DeadlineReached == elapsed + 1 >= TimeoutTicks

\* the next tick comes no later than the deadline
TickReached == elapsed + 1 <= TimeoutTicks

\* readMonitorOutput: Unmarshal failed, on to the select
RetryParse ==
    /\ pc' = "ParseWait"
    /\ UNCHANGED << lastRead, data, resolveErr, output, cycleVars, exitStatus >>

\* readMonitorOutput: return mi.Output, nil; subscribeAndRender calls render
ReturnOutput(out) ==
    /\ output' = out
    /\ lastRead' = NoData
    /\ data' = NoData
    /\ EnterRender
    /\ UNCHANGED << resolveErr, exitStatus >>

\* a missing entry handled like a parse failure: wait and read again
ReturnNotFoundRetry ==
    /\ pc' = "ParseWait"
    /\ UNCHANGED << lastRead, data, resolveErr, output, cycleVars, exitStatus >>

\* readMonitorOutput: the array has no entry for monitor: the not-found error
\* is returned and Run exits
ReturnNotFound ==
    /\ resolveErr' = "NotFound"
    /\ Fatal
    /\ UNCHANGED << lastRead, data, output, cycleVars >>

(***************************************************************************)
(* Actions                                                                 *)
(***************************************************************************)
\* Run: flag.Parse and the check of -monitor
RunStart ==
    /\ pc = "Start"
    /\ IF monitor = ""
       THEN Fatal
       ELSE pc' = "Detecting" /\ UNCHANGED exitStatus
    /\ UNCHANGED << plan, single, monitor, host, hostChanges, detects, pending, lastRead, data, cmdName, elapsed, reads, resolveErr, output,
                    cycleVars, stdout, subscribed, events, cycles, streamEnd >>

\* subscribeAndRender: cmdName := detectCommand(), then execCtx is created
Detect ==
    /\ pc = "Detecting"
    /\ stdout' = Append(stdout, "PATH")
    /\ cmdName' = detectCommand(host)
    /\ detects' = detects + 1
    /\ elapsed' = 0
    /\ pc' = "WaitFile"
    /\ UNCHANGED << plan, single, monitor, host, hostChanges, pending, lastRead, data, reads, resolveErr, output, cycleVars,
                    subscribed, events, cycles, streamEnd, exitStatus >>

\* waitForFile: case <-ticker.C, os.ReadFile finds f
WaitForFileTick ==
    /\ pc = "WaitFile"
    /\ TickReached
    /\ elapsed' = elapsed + 1
    /\ reads' = reads + 1
    /\ \E f \in FileContents :
          /\ lastRead' = f
          /\ IF ReadableNonEmpty(f)
             THEN data' = f /\ pc' = "Unmarshal"
             ELSE UNCHANGED << data, pc >>
    /\ UNCHANGED << plan, single, monitor, host, hostChanges, detects, pending, cmdName, resolveErr, output, cycleVars, stdout,
                    subscribed, events, cycles, streamEnd, exitStatus >>

\* a waitForFile whose select has no case for ctx.Done()
WaitForFileNoDeadline ==
    /\ pc = "WaitFile"
    /\ FALSE
    /\ UNCHANGED vars

\* waitForFile: case <-ctx.Done(); readMonitorOutput and subscribeAndRender
\* return the error and Run exits
WaitForFileTimeout ==
    /\ pc = "WaitFile"
    /\ DeadlineReached
    /\ resolveErr' = "TimedOut"
    /\ Fatal
    /\ UNCHANGED << plan, single, monitor, host, hostChanges, detects, pending, lastRead, data, cmdName, elapsed, reads, output, cycleVars,
                    stdout, subscribed, events, cycles, streamEnd >>

\* readMonitorOutput: json.Unmarshal(data, &infos), and on success the search
\* for monitor
Unmarshal ==
    /\ pc = "Unmarshal"
    /\ IF ~UnmarshalOk(data)
       THEN RetryParse
       ELSE LET r == FindMonitor(data.infos, monitor)
            IN  IF r.found THEN ReturnOutput(r.output) ELSE ReturnNotFound
    /\ UNCHANGED << plan, single, monitor, host, hostChanges, detects, pending, cmdName, elapsed, reads, stdout, subscribed,
                    events, cycles, streamEnd >>

\* readMonitorOutput: case <-time.After(200ms): data, _ = os.ReadFile(path)
ParseRetryTick ==
    /\ pc = "ParseWait"
    /\ TickReached
    /\ elapsed' = elapsed + 1
    /\ reads' = reads + 1
    /\ \E f \in FileContents :
          /\ lastRead' = f
          /\ data' = IF ReadOk(f) THEN f ELSE NoData
    /\ pc' = "Unmarshal"
    /\ UNCHANGED << plan, single, monitor, host, hostChanges, detects, pending, cmdName, resolveErr, output, cycleVars, stdout,
                    subscribed, events, cycles, streamEnd, exitStatus >>

\* readMonitorOutput: case <-ctx.Done()
ParseTimeout ==
    /\ pc = "ParseWait"
    /\ DeadlineReached
    /\ resolveErr' = "TimedOut"
    /\ Fatal
    /\ UNCHANGED << plan, single, monitor, host, hostChanges, detects, pending, lastRead, data, cmdName, elapsed, reads, output, cycleVars,
                    stdout, subscribed, events, cycles, streamEnd >>

\* a failed query handled like a failed subscription: the error ends the run
FetchFailFatal ==
    /\ pc = "Fetching"
    /\ fetchErr' = TRUE
    /\ Fatal
    /\ UNCHANGED << plan, single, monitor, host, hostChanges, detects, pending, lastRead, data, cmdName, elapsed, reads, resolveErr, output,
                    wss, states, visible, parts, widget, renders, stdout, subscribed,
                    events, cycles, streamEnd >>

\* render: fetchWorkspaces returned an error (the query cannot start, exits
\* non-zero, runs into its 500ms timeout, or prints what does not unmarshal);
\* render returns it and the caller logs it and goes on
FetchFail ==
    /\ pc = "Fetching"
    /\ fetchErr' = TRUE
    /\ pc' = AfterRender
    /\ UNCHANGED << plan, single, monitor, host, hostChanges, detects, pending, lastRead, data, cmdName, elapsed, reads, resolveErr, output,
                    wss, states, visible, parts, widget, renders, stdout, subscribed,
                    events, cycles, streamEnd, exitStatus >>

\* render: fetchWorkspaces returned resp, then the loop over wss
FetchOk(resp) ==
    /\ pc = "Fetching"
    /\ CanExec(cmdName, host)
    /\ wss' = resp
    /\ LET r == ApplyRecords(resp, output,
                    [ok |-> TRUE, states |-> states, visible |-> visible])
       IN  IF r.ok
           THEN /\ states' = r.states
                /\ visible' = r.visible
                /\ pc' = "Buttons"
                /\ UNCHANGED exitStatus
           ELSE \* index out of range: the runtime panics, exit status 2
                /\ pc' = "Terminated"
                /\ exitStatus' = 2
                /\ UNCHANGED << states, visible >>
    /\ UNCHANGED << plan, single, monitor, host, hostChanges, detects, pending, lastRead, data, cmdName, elapsed, reads, resolveErr, output,
                    fetchErr, parts, widget, renders, stdout, subscribed, events,
                    cycles, streamEnd >>

\* the query of a run
FetchWorkspaces == pc = "Fetching" /\ \E resp \in RunResponses : FetchOk(resp)

\* the query answering with any list of up to MaxWss workspaces
FetchAnyWorkspaces == pc = "Fetching" /\ \E resp \in Responses : FetchOk(resp)

\* render: one turn of the loop over startWS..endWS, which calls detectCommand();
\* after the last turn the widget is formatted and printed and render returns nil
BuildButton ==
    /\ pc = "Buttons"
    /\ LET i == Len(parts) + startWS
           next == Append(parts, Button(detectCommand(host), i, visible, states))
       IN  IF i < endWS
           THEN /\ parts' = next
                /\ stdout' = Append(stdout, "PATH")
                /\ UNCHANGED << pc, widget, cycles >>
           ELSE /\ parts' = << >>
                /\ widget' = next
                /\ stdout' = stdout \o << "PATH", "widget" >>
                /\ cycles' = cycles + 1
                /\ pc' = AfterRender
    /\ detects' = detects + 1
    /\ UNCHANGED << plan, single, monitor, host, hostChanges, pending, lastRead, data, cmdName, elapsed, reads,
                    resolveErr, output, wss, fetchErr, states, visible, renders, subscribed,
                    events, streamEnd, exitStatus >>

\* subscribeAndRender: subCmd.StdoutPipe() and subCmd.Start() succeed
StartOk ==
    /\ pc = "Subscribing"
    /\ CanExec(cmdName, host)
    /\ subscribed' = TRUE
    /\ pc' = "Subscribed"
    /\ UNCHANGED << plan, single, monitor, host, hostChanges, detects, pending, lastRead, data, cmdName, elapsed, reads, resolveErr, output,
                    cycleVars, stdout, events, cycles, streamEnd, exitStatus >>

\* subscribeAndRender: StdoutPipe or Start returns an error, Run logs it and exits
StartFail ==
    /\ pc = "Subscribing"
    /\ Fatal
    /\ UNCHANGED << plan, single, monitor, host, hostChanges, detects, pending, lastRead, data, cmdName, elapsed, reads, resolveErr, output,
                    cycleVars, stdout, subscribed, events, cycles, streamEnd >>

\* the host changes under the running process: a tool is installed or removed,
\* the compositor behind swaymsg starts or stops
HostChange ==
    /\ pc \notin {"Start", "Terminated"}
    /\ hostChanges < MaxHostChanges
    /\ hostChanges' = hostChanges + 1
    /\ host' \in Hosts \ {host}
    /\ UNCHANGED << plan, single, pc, monitor, detects, pending, lastRead, data, cmdName, elapsed, reads,
                    resolveErr, output, cycleVars, stdout, subscribed, events, cycles,
                    streamEnd, exitStatus >>

\* the subscription subprocess writes one event line into the pipe
Deliver ==
    /\ subscribed
    /\ pc # "Terminated"
    /\ pending < MaxPending
    /\ pending' = pending + 1
    /\ UNCHANGED << plan, single, pc, monitor, host, hostChanges, detects, lastRead, data, cmdName, elapsed,
                    reads, resolveErr, output, cycleVars, stdout, subscribed, events, cycles,
                    streamEnd, exitStatus >>

\* an event that makes the program resolve the output again from the file
ScanLineResolving ==
    /\ pc = "Subscribed"
    /\ events < MaxEvents
    /\ events' = events + 1
    /\ pending' = IF pending > 0 THEN pending - 1 ELSE 0
    /\ reads' = reads + 1
    /\ \E f \in FileContents :
          output' = IF UnmarshalOk(f) /\ FindMonitor(f.infos, monitor).found
                    THEN FindMonitor(f.infos, monitor).output
                    ELSE output
    /\ EnterRender
    /\ UNCHANGED << plan, single, monitor, host, hostChanges, detects, lastRead, data, cmdName, elapsed,
                    resolveErr, stdout, subscribed, cycles, streamEnd, exitStatus >>

\* scanner.Scan() returns true: one event line, the oldest in the pipe or, with
\* the pipe empty, the one Scan was blocked for; render is called
ScanLine ==
    /\ pc = "Subscribed"
    /\ events < MaxEvents
    /\ events' = events + 1
    /\ pending' = IF pending > 0 THEN pending - 1 ELSE 0
    /\ EnterRender
    /\ UNCHANGED << plan, single, monitor, host, hostChanges, detects, lastRead, data, cmdName, elapsed, reads,
                    resolveErr, output, stdout, subscribed, cycles, streamEnd, exitStatus >>

\* an end of stream that is seen while lines are still in the pipe
ScanEOFEarly ==
    /\ pc = "Subscribed"
    /\ streamEnd' = "eof"
    /\ pc' = "Terminated"
    /\ exitStatus' = 0
    /\ UNCHANGED << plan, single, monitor, host, hostChanges, detects, pending, lastRead, data, cmdName, elapsed,
                    reads, resolveErr, output, cycleVars, stdout, subscribed, events, cycles >>

\* scanner.Scan() returns false at end of stream, after every line written
\* before it has been returned; scanner.Err() is nil: subscribeAndRender returns
\* nil, Run and main return
ScanEOF ==
    /\ pc = "Subscribed"
    /\ pending = 0
    /\ streamEnd' = "eof"
    /\ pc' = "Terminated"
    /\ exitStatus' = 0
    /\ UNCHANGED << plan, single, monitor, host, hostChanges, detects, pending, lastRead, data, cmdName, elapsed,
                    reads, resolveErr, output, cycleVars, stdout, subscribed, events, cycles >>

\* scanner.Scan() returns false after a read error, the lines read before it
\* having been returned: scanner.Err() is returned and Run exits through
\* log.Fatalf
ScanError ==
    /\ pc = "Subscribed"
    /\ pending = 0
    /\ streamEnd' = "error"
    /\ Fatal
    /\ UNCHANGED << plan, single, monitor, host, hostChanges, detects, pending, lastRead, data, cmdName, elapsed,
                    reads, resolveErr, output, cycleVars, stdout, subscribed, events, cycles >>

(***************************************************************************)
(* The whole run, on every host, flag and history of the monitors file     *)
(***************************************************************************)
Next ==
    \/ RunStart
    \/ Detect
    \/ WaitForFileTick
    \/ WaitForFileTimeout
    \/ Unmarshal
    \/ ParseRetryTick
    \/ ParseTimeout
    \/ FetchFail
    \/ FetchWorkspaces
    \/ BuildButton
    \/ StartOk
    \/ StartFail
    \/ ScanLine
    \/ ScanEOF
    \/ ScanError

Spec == Init /\ [][Next]_vars

(***************************************************************************)
(* Startup up to the end of the resolution. Time passes: the ticker, the    *)
(* timer of time.After and the context's deadline fire, and the runtime     *)
(* runs the one goroutine, so a step that can be taken is taken.            *)
(***************************************************************************)
NextResolve ==
    \/ RunStart
    \/ Detect
    \/ WaitForFileTick
    \/ WaitForFileTimeout
    \/ Unmarshal
    \/ ParseRetryTick
    \/ ParseTimeout

SpecResolve == Init /\ [][NextResolve]_vars /\ WF_vars(NextResolve)

(***************************************************************************)
(* render on every workspace list: the run from its first call of render   *)
(* (the monitors file bound the monitor at the first poll) up to the start *)
(* of the subscription                                                     *)
(***************************************************************************)
RenderHosts == {h \in Hosts : h.i3OnPath /\ h.swayProbe \in {"ok", "none"}}

InitRender ==
    /\ monitor = "DP-1"
    /\ host \in RenderHosts
    /\ cmdName = detectCommand(host)
    /\ output \in Outputs
    /\ pc = "Fetching"
    /\ lastRead = NoData
    /\ data = NoData
    /\ elapsed = 1
    /\ reads = 1
    /\ resolveErr = "none"
    /\ wss = << >>
    /\ fetchErr = FALSE
    /\ states = InitStates
    /\ visible = InitVisible
    /\ parts = << >>
    /\ widget = << >>
    /\ stdout = << "PATH" >>
    /\ subscribed = FALSE
    /\ events = 0
    /\ renders = 1
    /\ cycles = 0
    /\ streamEnd = "open"
    /\ exitStatus = -1
    /\ detects = 1
    /\ hostChanges = 0
    /\ pending = 0
    /\ plan = NoPlan
    /\ single = NoSingle

NextRender ==
    \/ FetchFail
    \/ FetchAnyWorkspaces
    \/ BuildButton
    \/ StartOk
    \/ StartFail

SpecRender == InitRender /\ [][NextRender]_vars

(***************************************************************************)
(* The render and event loop under a changing environment: from the first  *)
(* call of render on, the host may change and the subscription writes its  *)
(* event lines while the program is busy                                   *)
(***************************************************************************)
NextEnv ==
    \/ HostChange
    \/ Deliver
    \/ FetchFail
    \/ FetchWorkspaces
    \/ BuildButton
    \/ StartOk
    \/ StartFail
    \/ ScanLine
    \/ ScanEOF
    \/ ScanError

SpecEnv == InitRender /\ [][NextEnv]_vars

(***************************************************************************)
(* A single-tool variant run after the auto-detecting program, on the same  *)
(* host and in the same environment                                         *)
(***************************************************************************)
\* every variable of the auto-detecting program
autoVars ==
    << pc, monitor, host, lastRead, data, cmdName, elapsed, reads, resolveErr, output,
       wss, fetchErr, states, visible, parts, widget, stdout, subscribed,
       events, renders, cycles, streamEnd, exitStatus, detects, hostChanges, pending >>

\* the auto-detecting program has terminated and the variant is at position p
SingleAt(p) == pc = "Terminated" /\ single.pc = p

\* log.Fatal, os.Exit(1)
SingleFatal(s) == [s EXCEPT !.pc = "Terminated", !.exitStatus = 1]

\* the call render(output)
SingleEnterRender(s) ==
    [s EXCEPT !.pc = "Fetching", !.renders = @ + 1, !.widget = << >>]

\* Run: flag.Parse and the check of -monitor, then subscribeAndRender calls its
\* resolver
SingleRun ==
    /\ SingleAt("Start")
    /\ single' =
           IF monitor = "" THEN SingleFatal(single)
           ELSE IF single.variant = "readMonitors"
                THEN [single EXCEPT !.pc = "ReadMonitors"]
                ELSE [single EXCEPT !.pc = "WaitFile"]
    /\ UNCHANGED << autoVars, plan >>

\* readMonitors: one os.ReadFile, one json.Unmarshal, the search; every error
\* goes to log.Fatal
SingleReadMonitors ==
    /\ SingleAt("ReadMonitors")
    /\ LET f == PlanFile(1)
           r == FindMonitor(f.infos, monitor)
           s == [single EXCEPT !.reads = 1]
       IN  single' =
               IF ~ReadOk(f) THEN SingleFatal([s EXCEPT !.resolveErr = "ReadError"])
               ELSE IF ~UnmarshalOk(f) THEN SingleFatal([s EXCEPT !.resolveErr = "ParseError"])
               ELSE IF ~r.found THEN SingleFatal([s EXCEPT !.resolveErr = "NotFound"])
               ELSE SingleEnterRender([s EXCEPT !.output = r.output])
    /\ UNCHANGED << autoVars, plan >>

\* waitForReadableFile: case <-ticker.C
SingleWaitForReadableFileTick ==
    /\ SingleAt("WaitFile")
    /\ single.elapsed + 1 < TimeoutTicks
    /\ LET f == PlanFile(single.reads + 1)
           s == [single EXCEPT !.elapsed = @ + 1, !.reads = @ + 1]
       IN  single' =
               IF ReadableNonEmpty(f) THEN [s EXCEPT !.data = f, !.pc = "Unmarshal"]
               ELSE s
    /\ UNCHANGED << autoVars, plan >>

\* waitForReadableFile: case <-ctx.Done(); ReadMonitorOutput returns the error
\* to log.Fatal
SingleWaitForReadableFileTimeout ==
    /\ SingleAt("WaitFile")
    /\ single.elapsed + 1 >= TimeoutTicks
    /\ single' = SingleFatal([single EXCEPT !.resolveErr = "TimedOut"])
    /\ UNCHANGED << autoVars, plan >>

\* ReadMonitorOutput: json.Unmarshal(data, &infos), and on success the search
SingleUnmarshal ==
    /\ SingleAt("Unmarshal")
    /\ LET r == FindMonitor(single.data.infos, monitor)
       IN  single' =
               IF ~UnmarshalOk(single.data) THEN [single EXCEPT !.pc = "ParseWait"]
               ELSE IF ~r.found THEN SingleFatal([single EXCEPT !.resolveErr = "NotFound"])
               ELSE SingleEnterRender([single EXCEPT !.output = r.output, !.data = NoData])
    /\ UNCHANGED << autoVars, plan >>

\* ReadMonitorOutput: case <-ticker.C: data, err = os.ReadFile(path), and
\* `continue` on an error leads to the same Unmarshal
SingleParseRetryTick ==
    /\ SingleAt("ParseWait")
    /\ single.elapsed + 1 < TimeoutTicks
    /\ LET f == PlanFile(single.reads + 1)
       IN  single' = [single EXCEPT !.elapsed = @ + 1, !.reads = @ + 1,
                                    !.data = IF ReadOk(f) THEN f ELSE NoData,
                                    !.pc = "Unmarshal"]
    /\ UNCHANGED << autoVars, plan >>

\* ReadMonitorOutput: case <-ctx.Done()
SingleParseTimeout ==
    /\ SingleAt("ParseWait")
    /\ single.elapsed + 1 >= TimeoutTicks
    /\ single' = SingleFatal([single EXCEPT !.resolveErr = "TimedOut"])
    /\ UNCHANGED << autoVars, plan >>

\* render(output): the query `i3-msg -t get_workspaces` by its bare name, the
\* loop over wss, the ten buttons and the Println; an error of the query is
\* returned and logged by the caller
SingleRender ==
    /\ SingleAt("Fetching")
    /\ LET after == IF single.subscribed THEN "Subscribed" ELSE "Subscribing"
           r == ApplyRecords(plan.resp, single.output,
                    [ok |-> TRUE, states |-> InitStates, visible |-> InitVisible])
       IN  single' =
               IF ~plan.queryOk \/ ~host.i3OnPath THEN [single EXCEPT !.pc = after]
               ELSE IF ~r.ok THEN [single EXCEPT !.pc = "Terminated", !.exitStatus = 2]
               ELSE [single EXCEPT
                        !.widget = [i \in 1..(endWS - startWS + 1) |->
                                       SingleButton(i + startWS - 1, r.visible, r.states)],
                        !.stdout = Append(@, "widget"),
                        !.pc = after]
    /\ UNCHANGED << autoVars, plan >>

\* subscribeAndRender: exec.Command("i3-msg", ...), StdoutPipe and Start
SingleStart ==
    /\ SingleAt("Subscribing")
    /\ single' =
           IF plan.startOk /\ host.i3OnPath
           THEN [single EXCEPT !.subscribed = TRUE, !.pc = "Subscribed"]
           ELSE SingleFatal(single)
    /\ UNCHANGED << autoVars, plan >>

\* subscribeAndRender: s.Scan() returns a line and render is called, or returns
\* false: at a clean end of stream the function, Run and main return, after a
\* read error log.Fatal
SingleScan ==
    /\ SingleAt("Subscribed")
    /\ single' =
           IF single.events < plan.lines
           THEN SingleEnterRender([single EXCEPT !.events = @ + 1])
           ELSE IF plan.end = "eof"
                THEN [single EXCEPT !.pc = "Terminated", !.exitStatus = 0]
                ELSE SingleFatal(single)
    /\ UNCHANGED << autoVars, plan >>

\* a step of the auto-detecting program is a step in the environment plan: the
\* reads meet the planned contents, the deadline wins where it races with a
\* tick, the query fails or answers as planned, the subscription starts and
\* its stream ends as planned
FollowsPlan ==
    /\ reads' = reads + 1 => (lastRead' = PlanFile(reads') /\ elapsed + 1 < TimeoutTicks)
    /\ pc = "Fetching" =>
           IF ~plan.queryOk \/ ~CanExec(cmdName, host)
           THEN fetchErr'
           ELSE ~fetchErr' /\ wss' = plan.resp
    /\ pc = "Subscribing" => (subscribed' <=> (plan.startOk /\ CanExec(cmdName, host)))
    /\ pc = "Subscribed" =>
           IF events < plan.lines THEN events' = events + 1 ELSE streamEnd' = plan.end

\* the auto-detecting program in the planned environment
AutoStep == Next /\ FollowsPlan

\* hosts on which detectCommand returns i3-msg
VariantHosts == {h \in Hosts : ~h.swayOnPath}

InitVariants ==
    /\ monitor = "DP-1"
    /\ host \in VariantHosts
    /\ InitLocals
    /\ plan \in Plans
    /\ single \in {SingleInit(v) : v \in Variants}

NextVariants ==
    \/ AutoStep
    \/ SingleRun
    \/ SingleReadMonitors
    \/ SingleWaitForReadableFileTick
    \/ SingleWaitForReadableFileTimeout
    \/ SingleUnmarshal
    \/ SingleParseRetryTick
    \/ SingleParseTimeout
    \/ SingleRender
    \/ SingleStart
    \/ SingleScan

SpecVariants == InitVariants /\ [][NextVariants]_vars

(***************************************************************************)
(* Properties                                                              *)
(***************************************************************************)

\* C1: once the subscription's output stream has ended, by a clean close or
\* by a read error, after any number of event lines, the process has
\* terminated with a non-zero exit status.
C1_StreamEndIsFatal ==
    streamEnd # "open" => (pc = "Terminated" /\ exitStatus > 0)

\* C2: standard output holds one line per successful render cycle, each of
\* them a widget line, and nothing else.
C2_StdoutOnlyWidgets ==
    /\ Len(stdout) = cycles
    /\ \A k \in 1..Len(stdout) : stdout[k] = "widget"

\* a record of list on output out whose slot number is outside startWS..endWS
OutOfRangeOnOutput(list, out) ==
    \E k \in 1..Len(list) : list[k].output = out /\ list[k].num \notin startWS..endWS

\* list without the records whose slot number is outside startWS..endWS
InSlotRange(list) == SelectSeq(list, LAMBDA w : w.num \in startWS..endWS)

\* C3: a record on the target output with a slot number outside 1..10 does
\* not crash the program, and slots 1..10 get the states they get without it.
C3_OutOfRangeIgnored ==
    OutOfRangeOnOutput(wss, output) =>
        /\ exitStatus # 2
        /\ pc = "Buttons" =>
              \A i \in startWS..endWS :
                  states[i] = ApplyRecords(InSlotRange(wss), output,
                                  [ok |-> TRUE, states |-> InitStates,
                                   visible |-> InitVisible]).states[i]

BoundOutput(infos, m, out) ==
    \E k \in 1..Len(infos) :
        /\ infos[k].monitor = m
        /\ infos[k].output = out
        /\ \A j \in 1..(k - 1) : infos[j].monitor # m

\* C5: while more than one poll interval is left the resolver's next step is
\* another read of the file, whatever the earlier reads met, and no error; a
\* read that meets a binding array is accepted and parsed; a parse failure
\* leads to the next wait, not to an error; an array that binds the monitor
\* makes resolve return that output; TimedOut is returned only at the deadline.
C5_RetryUntilSuccess ==
    [][ /\ (pc \in {"WaitFile", "ParseWait"} /\ elapsed + 1 < TimeoutTicks) =>
               /\ reads' = reads + 1
               /\ elapsed' = elapsed + 1
               /\ resolveErr' = "none"
               /\ exitStatus' = -1
        /\ (reads' = reads + 1 /\ lastRead'.kind = "array") =>
               (data' = lastRead' /\ pc' = "Unmarshal")
        /\ (pc = "Unmarshal" /\ data.kind # "array") =>
               (pc' = "ParseWait" /\ resolveErr' = "none" /\ exitStatus' = -1)
        /\ (pc = "Unmarshal" /\ data.kind = "array"
              /\ \E k \in 1..Len(data.infos) : data.infos[k].monitor = monitor) =>
               /\ BoundOutput(data.infos, monitor, output')
               /\ resolveErr' = "none"
               /\ pc' = "Fetching"
        /\ (resolveErr = "none" /\ resolveErr' = "TimedOut") => elapsed + 1 >= TimeoutTicks
      ]_vars

\* monitor DP-1 resolved to eDP-1 at the third read of the file
C5_Witness ==
    /\ monitor = "DP-1"
    /\ output = "eDP-1"
    /\ reads = 3
    /\ resolveErr = "none"
    /\ pc = "Fetching"

\* C6: the first array that parses and has no entry for the monitor ends the
\* resolution at once with NotFound: no further read, no wait, exit status 1;
\* and NotFound comes from nowhere else.
C6_NotFoundAtOnce ==
    [][ /\ (pc = "Unmarshal" /\ data.kind = "array"
              /\ \A k \in 1..Len(data.infos) : data.infos[k].monitor # monitor) =>
               /\ resolveErr' = "NotFound"
               /\ pc' = "Terminated"
               /\ exitStatus' = 1
               /\ reads' = reads
               /\ elapsed' = elapsed
        /\ (pc = "Unmarshal" /\ data.kind = "array") => pc' \in {"Fetching", "Terminated"}
        /\ (resolveErr = "none" /\ resolveErr' = "NotFound") =>
               (pc = "Unmarshal" /\ data.kind = "array")
      ]_vars

\* NotFound after the first read, 200ms into the 5s
C6_Witness ==
    /\ resolveErr = "NotFound"
    /\ reads = 1
    /\ elapsed = 1
    /\ exitStatus = 1

\* record k of wss is on the target output in a slot of the widget
Shown(k) == wss[k].output = output /\ wss[k].num \in startWS..endWS

\* C7 as stated: an urgent record's slot is printed urgent whatever else the
\* query returned.
C7_UrgentAlways ==
    widget # << >> =>
        \A k \in 1..Len(wss) :
            (Shown(k) /\ wss[k].urgent) => widget[wss[k].num].class = "urgent"

\* C7 amended: an urgent record's slot is printed urgent, whatever its focused
\* value, unless a later record of the list is on the target output in the
\* same slot.
C7_UrgentUnlessOverwritten ==
    widget # << >> =>
        \A k \in 1..Len(wss) :
            (/\ Shown(k)
             /\ wss[k].urgent
             /\ \A j \in (k + 1)..Len(wss) : ~(Shown(j) /\ wss[j].num = wss[k].num)) =>
                widget[wss[k].num].class = "urgent"

\* an urgent and focused record, beside another record, printed urgent
C7_Witness ==
    /\ widget # << >>
    /\ Len(wss) = 2
    /\ Shown(1) /\ wss[1].urgent /\ wss[1].focused
    /\ widget[wss[1].num].class = "urgent"

\* the records of list on output out
OnTarget(list, out) == SelectSeq(list, LAMBDA w : w.output = out)

\* C8: in a printed widget a slot that no record on the target output maps to
\* is unoccupied and visible, and the ten slots are what the records on the
\* target output alone make them.
C8_UnmatchedSlotsDefault ==
    widget # << >> =>
        /\ \A i \in startWS..endWS :
              (\A k \in 1..Len(wss) : ~(Shown(k) /\ wss[k].num = i)) =>
                  (widget[i].class = "unoccupied" /\ widget[i].visible = TRUE)
        /\ LET alone == ApplyRecords(OnTarget(wss, output), output,
                            [ok |-> TRUE, states |-> InitStates, visible |-> InitVisible])
           IN  /\ alone.ok
               /\ \A i \in startWS..endWS :
                     /\ widget[i].class = alone.states[i]
                     /\ widget[i].visible = alone.visible[i]

\* two records on the other output, one urgent and focused in slot 1, one in
\* slot 11: slot 1 is printed unoccupied
C8_Witness ==
    /\ widget # << >>
    /\ Len(wss) = 2
    /\ wss[1].output # output /\ wss[1].num = 1 /\ wss[1].urgent /\ wss[1].focused
    /\ wss[2].output # output /\ wss[2].num = endWS + 1
    /\ widget[1].class = "unoccupied"

\* C9: a printed widget line has ten buttons, the i-th with slot number i in
\* its click action and as its label, one of the four state classes and a
\* visibility flag; one focused record in slot 1 gives class focused for slot 1
\* and unoccupied, visible for slots 2..10.
C9_WidgetShape ==
    widget # << >> =>
        /\ Len(widget) = endWS - startWS + 1
        /\ stdout[Len(stdout)] = "widget"
        /\ \A i \in 1..Len(widget) :
              /\ widget[i].onclick[2] = startWS + i - 1
              /\ widget[i].label = startWS + i - 1
              /\ widget[i].class \in {"unoccupied", "occupied", "focused", "urgent"}
              /\ widget[i].visible \in BOOLEAN
        /\ wss = << [num |-> 1, focused |-> TRUE, urgent |-> FALSE, output |-> output] >> =>
              /\ widget[1].class = "focused" /\ widget[1].visible
              /\ \A i \in 2..endWS : widget[i].class = "unoccupied" /\ widget[i].visible

\* the widget of one focused record in slot 1 on eDP-1
C9_Witness ==
    /\ output = "eDP-1"
    /\ wss = << [num |-> 1, focused |-> TRUE, urgent |-> FALSE, output |-> "eDP-1"] >>
    /\ widget # << >>
    /\ widget[1].class = "focused"

\* C10: once detection has run, the command is swaymsg's path exactly when
\* swaymsg is on PATH and its probe succeeded in time, else i3-msg's path when
\* i3-msg is on PATH, else the bare name i3-msg; detection ends no run.
C10_DetectPrecedence ==
    (monitor # "" /\ pc \notin {"Start", "Detecting"}) =>
        /\ (cmdName = SwayPath) <=> (host.swayOnPath /\ host.swayProbe = "ok")
        /\ (cmdName = I3Path) <=>
               (~(host.swayOnPath /\ host.swayProbe = "ok") /\ host.i3OnPath)
        /\ (cmdName = I3Name) <=>
               (~(host.swayOnPath /\ host.swayProbe = "ok") /\ ~host.i3OnPath)
        /\ (pc = "WaitFile" /\ elapsed = 0) => (exitStatus = -1 /\ resolveErr = "none")

\* both tools installed and working: swaymsg is chosen
C10_Witness ==
    /\ host.swayOnPath /\ host.swayProbe = "ok" /\ host.i3OnPath
    /\ pc = "WaitFile"
    /\ cmdName = SwayPath

\* C11: detectCommand runs once in the life of the process, in the Detecting
\* phase; once it has run there, no later step runs it again.
C11_DetectOnce ==
    /\ detects <= 1
    /\ cmdName # "" => detects = 1

\* C12: every button, in the line being built and in the line printed, carries
\* the command chosen at startup, the one the query and the subscription are
\* run with, whatever happens to the host meanwhile.
C12_ButtonsCarryChosenCommand ==
    /\ \A i \in 1..Len(parts) : parts[i].onclick[1] = cmdName
    /\ \A i \in 1..Len(widget) : widget[i].onclick[1] = cmdName

\* the phase of the run a state belongs to
Phase ==
    CASE pc = "Start" -> 0
      [] pc = "Detecting" -> 1
      [] pc \in {"WaitFile", "Unmarshal", "ParseWait"} -> 2
      [] pc \in {"Fetching", "Buttons"} /\ ~subscribed -> 3
      [] pc = "Subscribing" -> 4
      [] pc \in {"Subscribed", "Fetching", "Buttons"} /\ subscribed -> 5
      [] pc = "Terminated" -> 6

\* C13: the phases come in order and none is entered again once left; a widget
\* line is printed and the subscription is started only with the output
\* resolved; the subscription is started only once the initial call of render
\* has returned, with a widget printed or with the query's error; a failed
\* resolution and a failed start of the subscription end the run at once with a
\* non-zero status; a terminated process prints nothing.
C13_PhasesOrdered ==
    /\ [](cycles > 0 => (output \in Outputs /\ resolveErr = "none"))
    /\ [](subscribed => (output \in Outputs /\ resolveErr = "none" /\ renders >= 1))
    /\ [](resolveErr # "none" =>
             (pc = "Terminated" /\ exitStatus > 0 /\ renders = 0 /\ ~subscribed))
    /\ [][ /\ Phase' >= Phase
           /\ (~subscribed /\ subscribed') =>
                  /\ pc = "Subscribing"
                  /\ renders = 1
                  /\ (fetchErr \/ cycles = 1)
           /\ (pc = "Subscribing" /\ ~subscribed') => (pc' = "Terminated" /\ exitStatus' > 0)
           /\ (resolveErr = "none" /\ resolveErr' # "none") =>
                  (pc' = "Terminated" /\ exitStatus' > 0)
           /\ (events' # events \/ (subscribed /\ renders' # renders)) => pc = "Subscribed"
           /\ pc = "Terminated" => stdout' = stdout
         ]_vars

\* the initial render failed and the subscription was started after it
C13_Witness ==
    /\ subscribed
    /\ pc = "Subscribed"
    /\ renders = 1
    /\ fetchErr
    /\ cycles = 0
    /\ output \in Outputs

\* C14: once the output is resolved it never changes and the monitors file is
\* never read again, whatever the file has become; every render, the initial one
\* and those of the event loop, sorts the records by that one output.
C14_OutputReadOnly ==
    /\ [][ (output \in Outputs) => (output' = output /\ reads' = reads) ]_vars
    /\ [](pc = "Buttons" =>
             LET r == ApplyRecords(wss, output,
                          [ok |-> TRUE, states |-> InitStates, visible |-> InitVisible])
             IN  r.ok /\ states = r.states /\ visible = r.visible)

\* resolved at the second read, and two widget lines printed: the initial one
\* and the one of an event
C14_Witness ==
    /\ output = "eDP-1"
    /\ reads = 2
    /\ events = 1
    /\ renders = 2
    /\ cycles = 2
    /\ widget # << >>

Resolving == pc \in {"WaitFile", "Unmarshal", "ParseWait"}

\* C16: a resolution that has begun ends, within the deadline's number of poll
\* intervals, and ends in exactly one of three ways: an output and render is
\* called, TimedOut and the run ends, NotFound and the run ends; an output and
\* NotFound come only from a read that met an array that parses, so a file that
\* is missing, unreadable, empty or unparseable at every read gives TimedOut,
\* at the deadline.
C16_ResolveTerminates ==
    /\ [](Resolving => <>(~Resolving))
    /\ [](elapsed <= TimeoutTicks /\ reads <= elapsed)
    /\ [](Resolving => (resolveErr = "none" /\ output = "" /\ exitStatus = -1))
    /\ [][ (Resolving /\ ~Resolving') =>
              /\ \/ pc' = "Fetching" /\ output' \in Outputs /\ resolveErr' = "none"
                 \/ pc' = "Terminated" /\ output' = "" /\ resolveErr' = "TimedOut"
                 \/ pc' = "Terminated" /\ output' = "" /\ resolveErr' = "NotFound"
              /\ resolveErr' # "TimedOut" => (pc = "Unmarshal" /\ data.kind = "array")
              /\ resolveErr' = "TimedOut" => elapsed + 1 >= TimeoutTicks
         ]_vars

\* the file was there and never parsed: read at every tick, TimedOut at the
\* deadline
C16_Witness ==
    /\ resolveErr = "TimedOut"
    /\ pc = "Terminated"
    /\ reads = TimeoutTicks
    /\ lastRead.kind = "garbage"
    /\ data.kind = "garbage"

\* the records of wss on the target output in slot i
ShownAt(i) == {k \in 1..Len(wss) : Shown(k) /\ wss[k].num = i}

\* the last of them in list order
LastShownAt(i) == CHOOSE k \in ShownAt(i) : \A j \in ShownAt(i) : j <= k

\* C17: records of one query on the target output in the same slot of 1..10 do
\* not crash render (a list whose records on the target output are all in
\* slots 1..10 never does), and the slot is printed with the state of the last
\* of them in list order: urgent if that record is urgent, else focused if it
\* is focused, else occupied, whatever the earlier ones were.
C17_LastRecordWins ==
    /\ (\A k \in 1..Len(wss) : wss[k].output = output => wss[k].num \in startWS..endWS) =>
           exitStatus # 2
    /\ widget # << >> =>
           \A i \in startWS..endWS :
               ShownAt(i) # {} =>
                   LET last == wss[LastShownAt(i)]
                   IN  /\ widget[i].visible = TRUE
                       /\ widget[i].class =
                              IF last.urgent THEN "urgent"
                              ELSE IF last.focused THEN "focused"
                              ELSE "occupied"

\* an urgent record and after it a record neither urgent nor focused, both on
\* the target output in slot 1: printed occupied
C17_Witness ==
    /\ widget # << >>
    /\ Len(wss) = 2
    /\ Shown(1) /\ Shown(2)
    /\ wss[1].num = 1 /\ wss[2].num = 1
    /\ wss[1].urgent
    /\ ~wss[2].urgent /\ ~wss[2].focused
    /\ widget[1].class = "occupied"

\* both programs have terminated
BothDone == pc = "Terminated" /\ single.pc = "Terminated"

\* the variant resolved the same output, or failed where the other failed
SameResolution ==
    BothDone =>
        /\ single.output = output
        /\ (single.resolveErr = "none") <=> (resolveErr = "none")
        /\ (single.resolveErr = "NotFound") <=> (resolveErr = "NotFound")

\* the same lines on standard output, and the same last widget line
SameStdout == BothDone => (single.stdout = stdout /\ single.widget = widget)

\* the same exit status
SameExit == BothDone => single.exitStatus = exitStatus

\* what the variant that polls does share with the auto-detecting program:
\* the resolution outcome, the exit status, and the widget lines up to the name
\* the buttons call the tool by
PollingVariantAgrees ==
    (single.variant = "ReadMonitorOutput" /\ BothDone) =>
        /\ SameResolution
        /\ SameExit
        /\ SelectSeq(stdout, LAMBDA l : l = "widget") = single.stdout
        /\ Len(widget) = Len(single.widget)
        /\ \A i \in 1..Len(widget) :
              [widget[i] EXCEPT !.onclick = << I3Name, @[2] >>] = single.widget[i]

\* C18: on a host where detection returns i3-msg, a single-tool variant run in
\* the environment of the auto-detecting program ends with the same resolution
\* outcome, the same lines on standard output and the same exit status.
C18_VariantsAgree == SameResolution /\ SameStdout /\ SameExit

====
